---- MODULE Spec2Model ----
(***************************************************************************)
(* A model of the ioc service container: registration of values and        *)
(* factories under (type, name), resolution (Get / NamedGet), struct field *)
(* injection (Resolve), parameter injection (Invoke) and Fork.             *)
(***************************************************************************)
EXTENDS Integers, Sequences, FiniteSets, TLC

\* ------------------------------------------------------------------ bounds
MaxContainers == 2      \* containers that exist at once (the root and its forks)
MaxOps == 3             \* operations in one run
MaxDepth == 5           \* nested calls of get before the goroutine stack is taken as exhausted
NCallers == 3           \* goroutines in the concurrent specification

\* ------------------------------------------------------- the type universe
\* reflect.Type values the clients use.  Logger is an interface; Console and
\* File are pointer types that implement it; Service is a pointer type
\* produced by a factory that needs a Logger; Ints is the unnamed type []int
\* and IntSlice a defined type whose underlying type is []int; App and Unit
\* are struct types, and so are Plain (a field without a tag), Job (required
\* and optional fields) and Outer (a field of a struct type).
Types == {"Logger", "Console", "File", "Service", "Ints", "IntSlice", "App", "Unit",
          "Plain", "Job", "Outer"}

StructTypes == {"App", "Unit", "Plain", "Job", "Outer"}

NilType == "nil"

Names == {"", "primary"}

Kind(t) ==
  CASE t = "Logger" -> "interface"
    [] t \in {"Console", "File", "Service"} -> "ptr"
    [] t \in {"Ints", "IntSlice"} -> "slice"
    [] t \in StructTypes -> "struct"
    [] OTHER -> "ptr"

\* rt.Implements(t), for an interface type t
Implements(rt, t) == t = "Logger" /\ rt \in {"Console", "File"}

\* rt.AssignableTo(t): identical types, t an interface that rt implements,
\* or identical underlying types of which one is not a defined type
AssignableTo(rt, t) ==
  \/ rt = t
  \/ Kind(t) = "interface" /\ Implements(rt, t)
  \/ {rt, t} = {"Ints", "IntSlice"}

\* reflect.PtrTo(t), the type of reflect.New(t)
PtrTo(t) == "*" \o t

\* The fields of the struct types: the field's type, whether it is exported
\* (settable through a pointer) and its struct tag: hasTag says whether the
\* ioc key is present, tag is its text as a sequence of characters.
Field(fname, typ, exported, hasTag, tag) ==
  [fname |-> fname, typ |-> typ, exported |-> exported, hasTag |-> hasTag, tag |-> tag]

OmitEmpty == <<",", "o", "m", "i", "t", "e", "m", "p", "t", "y">>

Fields(t) ==
  CASE t = "App" -> << [fname |-> "Log", typ |-> "Console", exported |-> TRUE,
                        hasTag |-> TRUE,
                        tag |-> <<"p", "r", "i", "m", "a", "r", "y">>] >>
    [] t = "Plain" -> << Field("Log", "Console", TRUE, FALSE, << >>) >>
    [] t = "Job" -> << Field("Log", "Console", TRUE, TRUE, << >>),
                       Field("Svc", "Service", TRUE, TRUE, OmitEmpty),
                       Field("Out", "Ints", TRUE, TRUE, << >>),
                       Field("Err", "Console", TRUE, TRUE, << >>) >>
    [] t = "Outer" -> << Field("U", "Unit", TRUE, TRUE, << >>) >>
    [] OTHER -> << >>

\* ------------------------------------------------------------------ values
\* A reflect.Value: its dynamic type, where it came from, an identity and,
\* for a factory product or a constructed struct, the values it was built of.
Val(t, src, id, args) == [typ |-> t, src |-> src, id |-> id, args |-> args]

\* the zero reflect.Value, for which IsValid() is false
NoValue == Val("invalid", "", <<0 - 1, "", 0, 0>>, << >>)

IsValid(v) == v.typ # "invalid"

\* the values clients bind
BoundValue(t, n) == Val(t, "bind", <<0 - 1, "", 0, n>>, << >>)

BindValues == {BoundValue("Console", 1), BoundValue("Console", 2), BoundValue("File", 1),
               BoundValue("Service", 1), BoundValue("Ints", 1)}

\* ---------------------------------------------------------------- factories
\* What a client passes to Factory / NamedFactory: nil, a value that is not
\* a function, or a function with parameter types ins and result types outs;
\* dyn is the dynamic type of the first result of a call.
Fn(id, kind, ins, outs, dyn) == [id |-> id, kind |-> kind, ins |-> ins, outs |-> outs, dyn |-> dyn]

FactoryArgs == {
  Fn("newConsole", "func", << >>, <<"Console">>, "Console"),
  Fn("newService", "func", <<"Logger">>, <<"Service">>, "Service"),
  Fn("newInts", "func", << >>, <<"Ints">>, "Ints"),
  Fn("nil", "nil", << >>, << >>, "invalid"),
  Fn("notFunc", "int", << >>, << >>, "invalid"),
  Fn("noResult", "func", << >>, << >>, "invalid"),
  Fn("threeResults", "func", << >>, <<"Console", "Console", "error">>, "Console"),
  Fn("secondNotError", "func", << >>, <<"Console", "Ints">>, "Console"),
  Fn("withError", "func", << >>, <<"Service", "error">>, "Service"),
  Fn("selfRef", "func", <<"Service">>, <<"Service">>, "Service") }

\* ------------------------------------------------------------------- errors
ErrValueNotFound == "ioc: value not found"
errNotFactory == "ioc: the factory must be a function"
errInvalidFactory == "ioc: factory function signature is invalid - it must return abstract, or abstract and error"
errCircularReference == "ioc: factory function signature is invalid - depends on abstract it returns"

\* errorType = reflect.TypeOf(error(nil)): the dynamic type of a nil
\* interface value, which is the nil reflect.Type
errorType == NilType

\* -------------------------------------------------------------------- state
NoParent == 0 - 1
Containers == 0 .. (MaxContainers - 1)
Goroutines == 1 .. NCallers

VARIABLES
  live,        \* the containers created so far; 0 is the one New() returned
  parent,      \* Container.parent
  instances,   \* Container.instances: per container, (type, name) -> value
  factories,   \* Container.factories: per container, (type, name) -> *binding
  calls,       \* per container and key: invocations of the factory registered there
  news,        \* structs built by implicit construction so far
  lastBound,   \* history: per container and key, the value of the latest Bind / NamedBind
               \* and how many there were
  lastReg,     \* history: per container and key, the latest registration of either kind
  ret,         \* the latest call and what it returned
  nops,        \* calls made so far
  alive,       \* FALSE once the process died of a fatal error
  pc,          \* concurrent callers: where each goroutine is in get / make
  tmp,         \* concurrent callers: the value each goroutine holds
  writing      \* concurrent callers: the goroutines inside a map assignment

vars == <<live, parent, instances, factories, calls, news, lastBound, lastReg, ret, nops,
          alive, pc, tmp, writing>>

EmptyMap == [x \in {} |-> NoValue]

Put(m, k, v) == [x \in (DOMAIN m) \cup {k} |-> IF x = k THEN v ELSE m[x]]

\* the place of (rt, name) in the two-level maps: instances[rt][name]
slot(rt, name) == <<rt, name>>

Has(m, rt, name) == slot(rt, name) \in DOMAIN m

StackOverflow == "fatal error: stack overflow"

\* A result inside the engine: kind is "ok", "err" (an error value was
\* returned), "panic", "fatal" (the goroutine stack is exhausted) or "none"
\* (this step found nothing and the caller goes on); w is the state of the
\* containers after the call.
R(kind, err, val, w) == [kind |-> kind, err |-> err, val |-> val, w |-> w]

\* The order in which one range loop over a map visits the types.  Go leaves
\* it unspecified, so every call draws the orders of its loops.
TypeOrder == <<"Console", "File", "Service", "Ints", "IntSlice", "Logger", "App", "Unit",
               "Plain", "Job", "Outer">>

Reverse(s) == [i \in 1 .. Len(s) |-> s[Len(s) + 1 - i]]

Orders == {TypeOrder, Reverse(TypeOrder)}

Oracles == {<<a, b>> : a \in Orders, b \in Orders}

World(ord) == [inst |-> instances, calls |-> calls, news |-> news, k |-> 1, ord |-> ord]

CurOrder(w) == w.ord[IF w.k > Len(w.ord) THEN Len(w.ord) ELSE w.k]

Tick(w) == [w EXCEPT !.k = @ + 1]

\* the members of S in the order of the sequence ord
RECURSIVE InOrder(_, _)
InOrder(ord, S) ==
  IF ord = << >> THEN << >>
  ELSE IF Head(ord) \in S THEN <<Head(ord)>> \o InOrder(Tail(ord), S)
  ELSE InOrder(Tail(ord), S)

\* ------------------------------------------------------------ binding.go
NoBinding == [name |-> "", typ |-> NilType, factory |-> Fn("", "nil", << >>, << >>, "invalid"),
              shared |-> FALSE, gen |-> 0]

\* a newBinding without the check for a parameter of the returned type
newBinding_noCycleCheck(name, f, shared) ==
  IF f.kind = "nil" THEN [kind |-> "panic", err |-> "reflect: call of reflect.Value.Type on zero Value", b |-> NoBinding]
  ELSE IF f.kind # "func" THEN [kind |-> "err", err |-> errNotFactory, b |-> NoBinding]
  ELSE IF Len(f.outs) = 2 /\ errorType = NilType
    THEN [kind |-> "panic", err |-> "reflect: nil type passed to Type.Implements", b |-> NoBinding]
  ELSE IF Len(f.outs) = 2 /\ f.outs[2] # "error" THEN [kind |-> "err", err |-> errInvalidFactory, b |-> NoBinding]
  ELSE IF Len(f.outs) \notin {1, 2} THEN [kind |-> "err", err |-> errInvalidFactory, b |-> NoBinding]
  ELSE [kind |-> "ok", err |-> "",
        b |-> [name |-> name, typ |-> f.outs[1], factory |-> f,
               shared |-> (Len(shared) > 0 /\ shared[1]), gen |-> 0]]

\* newBinding: the binding, or the error, or the panic of the reflect call
newBinding(name, f, shared) ==
  IF f.kind = "nil" THEN [kind |-> "panic", err |-> "reflect: call of reflect.Value.Type on zero Value", b |-> NoBinding]
  ELSE IF f.kind # "func" THEN [kind |-> "err", err |-> errNotFactory, b |-> NoBinding]
  ELSE IF Len(f.outs) = 2 /\ errorType = NilType
    THEN [kind |-> "panic", err |-> "reflect: nil type passed to Type.Implements", b |-> NoBinding]
  ELSE IF Len(f.outs) = 2 /\ f.outs[2] # "error" THEN [kind |-> "err", err |-> errInvalidFactory, b |-> NoBinding]
  ELSE IF Len(f.outs) \notin {1, 2} THEN [kind |-> "err", err |-> errInvalidFactory, b |-> NoBinding]
  ELSE IF \E i \in 1 .. Len(f.ins) : f.ins[i] = f.outs[1]
    THEN [kind |-> "err", err |-> errCircularReference, b |-> NoBinding]
  ELSE [kind |-> "ok", err |-> "",
        b |-> [name |-> name, typ |-> f.outs[1], factory |-> f,
               shared |-> (Len(shared) > 0 /\ shared[1]),
               gen |-> 0]]     \* gen: which binding this is among those made for its key

\* reflect.Value.Call: the results of calling f with the arguments args; id
\* tells this call from every other.  A function of the model returns a
\* fresh value of its dynamic type and, where it declares one, a nil error.
NilError == Val("error", "nil", <<0 - 1, "", 0, 0>>, << >>)

Call(f, args, id) ==
  [i \in 1 .. Len(f.outs) |->
     IF f.outs[i] = "error" THEN NilError
     ELSE Val(IF i = 1 THEN f.dyn ELSE f.outs[i], f.id, id, args)]

\* a setInstance that keeps the value a key already holds
setInstance_keepFirst(c, name, rt, rv, w) ==
  IF Has(w.inst[c], rt, name) THEN w ELSE [w EXCEPT !.inst[c] = Put(@, slot(rt, name), rv)]

\* a setInstance that writes into the parent of a forked container
setInstance_intoParent(c, name, rt, rv, w) ==
  LET o == IF parent[c] # NoParent THEN parent[c] ELSE c
  IN [w EXCEPT !.inst[o] = Put(@, slot(rt, name), rv)]

\* Container.setInstance
setInstance(c, name, rt, rv, w) == [w EXCEPT !.inst[c] = Put(@, slot(rt, name), rv)]

\* --------------------------------------------------------------- parseTag
\* strings.Split(s, ","), s given as its sequence of characters
RECURSIVE Split(_, _)
Split(s, cur) ==
  IF s = << >> THEN <<cur>>
  ELSE IF Head(s) = "," THEN <<cur>> \o Split(Tail(s), "")
  ELSE Split(Tail(s), cur \o Head(s))

parseTag(field) ==
  IF field.hasTag
    THEN LET segments == Split(field.tag, "")
         IN [name |-> segments[1],
             omitempty |-> \E i \in 2 .. Len(segments) : segments[i] = "omitempty",
             inject |-> TRUE]
    ELSE [name |-> "", omitempty |-> FALSE, inject |-> FALSE]

\* ------------------------------------------------------------- resolution
RECURSIVE get(_, _, _, _, _)
RECURSIVE make(_, _, _, _)
RECURSIVE invokeArgs(_, _, _, _, _, _)
RECURSIVE scanFactories(_, _, _, _, _)
RECURSIVE resolveFields(_, _, _, _, _, _, _)

\* Container.invoke, after the Get of parameter i returned g
invokeArg(c, f, i, in, g, d) ==
  IF g.kind # "ok" THEN R(g.kind, g.err, << >>, g.w)
  ELSE IF ~IsValid(g.val) THEN R("err", "ioc: value not found for type", << >>, g.w)
  ELSE invokeArgs(c, f, i + 1, Append(in, g.val), g.w, d)

\* Container.invoke: the parameters are resolved in order with Get
invokeArgs(c, f, i, in, w, d) ==
  IF i > Len(f.ins) THEN R("ok", "", in, w)
  ELSE invokeArg(c, f, i, in, get(c, "", f.ins[i], w, d + 1), d)

\* Container.invoke, the call of the function with the arguments a: Call
\* panics on an argument that is not assignable to its parameter
invokeCall(f, id, a) ==
  IF a.kind # "ok" THEN a
  ELSE IF \E i \in 1 .. Len(f.ins) : ~AssignableTo(a.val[i].typ, f.ins[i])
    THEN R("panic", "reflect: Call using a value of another type", << >>, a.w)
  ELSE R("ok", "", Call(f, a.val, id), a.w)

invoke(c, f, id, w, d) == invokeCall(f, id, invokeArgs(c, f, 1, << >>, w, d))

\* binding.make, after c.invoke returned iv: the error result, the cache
made(b, c, key, n, iv) ==
  LET w1 == [iv.w EXCEPT !.calls[c] = Put(@, key, n + 1)]
  IN IF iv.kind # "ok" THEN R(iv.kind, iv.err, NoValue, iv.w)
     ELSE IF Len(iv.val) = 2 /\ iv.val[2] = NilError
       THEN R("panic", "interface conversion: interface is nil, not error", NoValue, w1)
     ELSE IF Len(iv.val) = 2 THEN R("err", "factory error", NoValue, w1)
     ELSE IF b.shared /\ IsValid(iv.val[1])
       THEN R("ok", "", iv.val[1], setInstance(c, b.name, b.typ, iv.val[1], w1))
     ELSE R("ok", "", iv.val[1], w1)

\* the n-th invocation of the factory of binding b
invocation(b, c, key, n, w, d) ==
  made(b, c, key, n, invoke(c, b.factory, <<c, b.name, b.gen, n + 1>>, w, d))

\* binding.make
make(b, c, w, d) ==
  IF slot(b.typ, b.name) \in DOMAIN w.inst[c] THEN R("ok", "", w.inst[c][slot(b.typ, b.name)], w)
  ELSE invocation(b, c, slot(b.typ, b.name),
                  IF slot(b.typ, b.name) \in DOMAIN w.calls[c]
                    THEN w.calls[c][slot(b.typ, b.name)] ELSE 0,
                  w, d)

\* the second range loop of get, after make returned m for one factory
scanMade(c, t, rts, m, d) ==
  IF m.kind = "err" THEN scanFactories(c, t, Tail(rts), m.w, d)        \* continue
  ELSE IF m.kind = "ok" /\ ~IsValid(m.val) THEN scanFactories(c, t, Tail(rts), m.w, d)
  ELSE m

\* the second range loop of get, on the factories of type rt
scanType(c, t, rt, rts, w, d) ==
  IF rt = t THEN scanFactories(c, t, Tail(rts), w, d)
  ELSE IF Kind(t) = "interface" /\ Implements(rt, t)
    THEN scanFactories(c, t, Tail(rts), w, d)      \* a case with an empty body
  ELSE IF AssignableTo(rt, t) /\ Has(factories[c], rt, "")
    THEN scanMade(c, t, rts, make(factories[c][slot(rt, "")], c, w, d), d)
  ELSE scanFactories(c, t, Tail(rts), w, d)

\* the second range loop of get, over the factories of other types
scanFactories(c, t, rts, w, d) ==
  IF rts = << >> THEN R("none", "", NoValue, w)
  ELSE scanType(c, t, Head(rts), rts, w, d)

\* Container.resolve, after the Get for field i returned g
fieldSet(c, fs, i, vals, settable, omitempty, g, d) ==
  IF g.kind = "err"
    THEN IF omitempty THEN resolveFields(c, fs, i + 1, vals, settable, g.w, d)
         ELSE R("err", g.err, vals, g.w)
  ELSE IF g.kind # "ok" THEN R(g.kind, g.err, vals, g.w)
  ELSE IF ~IsValid(g.val) THEN R("err", "ioc: value not found for type", vals, g.w)
  ELSE IF ~AssignableTo(g.val.typ, fs[i].typ)
    THEN R("panic", "reflect.Set: value is not assignable to the field", vals, g.w)
  ELSE resolveFields(c, fs, i + 1, [vals EXCEPT ![i] = g.val], settable, g.w, d)

\* Container.resolve on field f with the parsed tag p
resolveField(c, fs, i, f, p, vals, settable, w, d) ==
  IF ~(settable /\ f.exported)
    THEN IF p.inject /\ ~p.omitempty
           THEN R("err", "ioc: cannot make field", vals, w)
         ELSE resolveFields(c, fs, i + 1, vals, settable, w, d)
  ELSE fieldSet(c, fs, i, vals, settable, p.omitempty, get(c, p.name, f.typ, w, d + 1), d)

\* Container.resolve on a struct of type t whose fields hold vals; settable
\* says whether the struct was reached through a pointer
resolveFields(c, fs, i, vals, settable, w, d) ==
  IF i > Len(fs) THEN R("ok", "", vals, w)
  ELSE resolveField(c, fs, i, fs[i], parseTag(fs[i]), vals, settable, w, d)

ZeroFields(t) == [i \in 1 .. Len(Fields(t)) |-> NoValue]

resolve(c, t, settable, w, d) ==
  IF Kind(t) # "struct" THEN R("err", "ioc: must given a struct", << >>, w)
  ELSE resolveFields(c, Fields(t), 1, ZeroFields(t), settable, w, d)

\* the first range loop of get: the other types that hold a value under name
instanceCandidates(c, name, t, w) ==
  {rt \in Types : /\ rt # t
                  /\ (Kind(t) = "interface" /\ Implements(rt, t)) \/ AssignableTo(rt, t)
                  /\ Has(w.inst[c], rt, name)}

factoryTypes(c) == {rt \in Types : \E n \in Names : Has(factories[c], rt, n)}

\* Container.get, the implicit construction: rs is what c.resolve returned
getNew(c, t, rs) ==
  IF rs.kind # "ok" THEN R(rs.kind, rs.err, NoValue, rs.w)
  ELSE R("ok", "", Val(PtrTo(t), "new", <<c, "", 0, rs.w.news + 1>>, rs.val),
         [rs.w EXCEPT !.news = @ + 1])

\* Container.get, after the loop over the factories returned r5
getParent(c, name, t, r5, d) ==
  IF r5.kind # "none" THEN r5
  ELSE IF parent[c] # NoParent THEN get(c, name, t, r5.w, d + 1)   \* c.NamedGet(name, t)
  ELSE IF Kind(t) = "struct" THEN getNew(c, t, resolve(c, t, TRUE, r5.w, d))
  ELSE R("err", ErrValueNotFound, NoValue, r5.w)

\* Container.get, the two range loops, in the world w
getFallback(c, name, t, cands, w, d) ==
  IF cands # {}
    THEN R("ok", "", w.inst[c][slot(InOrder(CurOrder(w), cands)[1], name)], Tick(w))
  ELSE getParent(c, name, t, scanFactories(c, t, InOrder(CurOrder(w), factoryTypes(c)), w, d), d)

\* Container.get, after the exact factory lookup returned r2
getFactory(c, name, t, r2, d) ==
  IF r2.kind = "ok" /\ IsValid(r2.val) THEN r2
  ELSE IF r2.kind \notin {"ok", "none"} THEN r2
  ELSE getFallback(c, name, t, instanceCandidates(c, name, t, r2.w), r2.w, d)

\* Container.get
get(c, name, t, w, d) ==
  IF d > MaxDepth THEN R("fatal", StackOverflow, NoValue, w)
  ELSE IF t = NilType THEN R("err", ErrValueNotFound, NoValue, w)
  ELSE IF Has(w.inst[c], t, name) /\ IsValid(w.inst[c][slot(t, name)])
    THEN R("ok", "", w.inst[c][slot(t, name)], w)
  ELSE getFactory(c, name, t,
                  IF Has(factories[c], t, name)
                    THEN make(factories[c][slot(t, name)], c, w, d)
                  ELSE R("none", "", NoValue, w),
                  d)

\* ------------------------------------------------------------- operations
\* What a call left behind: the call, its arguments and its outcome.  val is
\* the value returned, vals the result list of Invoke or the fields after
\* Resolve.
Ret(op, c, name, t, arg, kind, err, val, vals) ==
  [op |-> op, c |-> c, name |-> name, t |-> t, arg |-> arg,
   kind |-> kind, err |-> err, val |-> val, vals |-> vals]

Init ==
  /\ live = {0}
  /\ parent = [c \in Containers |-> NoParent]
  /\ instances = [c \in Containers |-> EmptyMap]
  /\ factories = [c \in Containers |-> EmptyMap]
  /\ calls = [c \in Containers |-> EmptyMap]
  /\ news = 0
  /\ lastBound = [c \in Containers |-> EmptyMap]
  /\ lastReg = [c \in Containers |-> EmptyMap]
  /\ ret = Ret("New", 0, "", NilType, "", "ok", "", NoValue, << >>)
  /\ nops = 0
  /\ alive = TRUE
  /\ pc = [g \in Goroutines |-> "idle"]
  /\ tmp = [g \in Goroutines |-> NoValue]
  /\ writing = {}

Step == alive /\ nops < MaxOps /\ nops' = nops + 1 /\ UNCHANGED <<pc, tmp, writing>>

\* Container.Fork
Fork(p) ==
  /\ Step
  /\ p \in live
  /\ Cardinality(live) < MaxContainers
  /\ LET c == Cardinality(live)
     IN /\ live' = live \cup {c}
        /\ parent' = [parent EXCEPT ![c] = p]
        /\ ret' = Ret("Fork", c, "", NilType, "", "ok", "", NoValue, << >>)
  /\ UNCHANGED <<instances, factories, calls, news, lastBound, lastReg, alive>>

\* Container.NamedBind
NamedBind(c, name, v) ==
  /\ Step
  /\ c \in live
  /\ instances' = setInstance(c, name, v.typ, v, World(<< >>)).inst
  /\ lastBound' = [lastBound EXCEPT ![c] = Put(@, <<v.typ, name>>,
                     [val |-> v, n |-> IF <<v.typ, name>> \in DOMAIN @ THEN @[<<v.typ, name>>].n + 1 ELSE 1])]
  /\ lastReg' = [lastReg EXCEPT ![c] = Put(@, <<v.typ, name>>,
                   [what |-> "value", val |-> v, fid |-> "", shared |-> FALSE, gen |-> 0])]
  /\ ret' = Ret("NamedBind", c, name, v.typ, "", "ok", "", v, << >>)
  /\ UNCHANGED <<live, parent, factories, calls, news, alive>>

\* Container.Bind
Bind(c, v) == NamedBind(c, "", v)

\* Container.NamedFactory
NamedFactory(c, name, f, shared) ==
  /\ Step
  /\ c \in live
  /\ LET nb == newBinding(name, f, shared)
         key == slot(nb.b.typ, name)
         gen == IF key \in DOMAIN factories[c] THEN factories[c][key].gen + 1 ELSE 1
     IN IF nb.kind # "ok"
          THEN /\ ret' = Ret("NamedFactory", c, name, NilType, f.id, nb.kind, nb.err, NoValue, << >>)
               /\ UNCHANGED <<factories, calls, lastReg>>
        ELSE /\ factories' = [factories EXCEPT ![c] = Put(@, key, [nb.b EXCEPT !.gen = gen])]
             /\ calls' = [calls EXCEPT ![c] = Put(@, key, 0)]
             /\ lastReg' = [lastReg EXCEPT ![c] = Put(@, <<nb.b.typ, name>>,
                              [what |-> "factory", val |-> NoValue, fid |-> f.id,
                               shared |-> nb.b.shared, gen |-> gen])]
             /\ ret' = Ret("NamedFactory", c, name, nb.b.typ, f.id, "ok", "", NoValue, << >>)
  /\ UNCHANGED <<live, parent, instances, news, lastBound, alive>>

\* Container.Factory
Factory(c, f, shared) == NamedFactory(c, "", f, shared)

\* what a call into the engine leaves: the maps as the call left them, and a
\* dead process after a fatal error
Leave(r) ==
  /\ alive' = (r.kind # "fatal")
  /\ instances' = r.w.inst
  /\ calls' = r.w.calls
  /\ news' = r.w.news
  /\ UNCHANGED <<live, parent, factories, lastBound, lastReg>>

\* Container.NamedGet
NamedGet(c, name, t, ord) ==
  /\ Step
  /\ c \in live
  /\ LET r == get(c, name, t, World(ord), 0)
     IN /\ ret' = Ret("NamedGet", c, name, t, "", r.kind, r.err, r.val, << >>)
        /\ Leave(r)

\* Container.Get
Get(c, t, ord) == NamedGet(c, "", t, ord)

\* Container.Resolve, given a pointer to a zero struct of type t, a struct
\* of type t (not through a pointer) or a value that is no struct
ResolveArgs == {[typ |-> "App", ptr |-> TRUE], [typ |-> "App", ptr |-> FALSE],
                [typ |-> "Unit", ptr |-> TRUE], [typ |-> "Ints", ptr |-> FALSE]}

Resolve(c, i, ord) ==
  /\ Step
  /\ c \in live
  /\ LET r == resolve(c, i.typ, i.ptr, World(ord), 0)
     IN /\ ret' = Ret("Resolve", c, "", i.typ, IF i.ptr THEN "ptr" ELSE "value",
                      r.kind, r.err, NoValue, r.val)
        /\ Leave(r)

\* Container.Invoke
InvokeArgs == {
  Fn("useLogger", "func", <<"Logger">>, << >>, "invalid"),
  Fn("useBoth", "func", <<"Console", "Service">>, <<"Ints", "error">>, "Ints"),
  Fn("notFunc", "int", << >>, << >>, "invalid") }

Invoke(c, fn, ord) ==
  /\ Step
  /\ c \in live
  /\ LET r == IF fn.kind # "func"
                THEN R("err", "ioc: Out of non-func type", << >>, World(ord))
              ELSE invoke(c, fn, <<c, "", 0, nops + 1>>, World(ord), 0)
     IN /\ ret' = Ret("Invoke", c, "", NilType, fn.id, r.kind, r.err, NoValue, r.val)
        /\ Leave(r)

Shareds == {<< >>, <<TRUE>>}

\* The calls of the clients, their arguments drawn from the universe U.  Bind,
\* Factory and Get are the calls with the name "", so the named calls draw
\* their name from the other names.
Named == Names \ {""}

NextOn(U) ==
  \/ \E p \in Containers : Fork(p)
  \/ \E c \in Containers, v \in U.values : Bind(c, v)
  \/ \E c \in Containers, n \in Named, v \in U.values : NamedBind(c, n, v)
  \/ \E c \in Containers, f \in U.factories, sh \in Shareds : Factory(c, f, sh)
  \/ \E c \in Containers, n \in Named, f \in U.factories, sh \in Shareds : NamedFactory(c, n, f, sh)
  \/ \E c \in Containers, t \in U.types, ord \in U.oracles : Get(c, t, ord)
  \/ \E c \in Containers, n \in Named, t \in U.types, ord \in U.oracles : NamedGet(c, n, t, ord)
  \/ \E c \in Containers, i \in U.resolves, ord \in U.oracles : Resolve(c, i, ord)
  \/ \E c \in Containers, fn \in U.invokes, ord \in U.oracles : Invoke(c, fn, ord)

\* The universe of the main specification: one implementation of Logger, a
\* service built from a Logger, a slice type with its defined twin, and every
\* kind of factory argument.  Only Console satisfies Logger and only Ints
\* satisfies IntSlice here, so the order of the range loops decides nothing.
Core ==
  [values |-> {BoundValue("Console", 1), BoundValue("Console", 2), BoundValue("Ints", 1)},
   factories |-> FactoryArgs,
   types |-> {"Console", "Logger", "Service", "IntSlice", "App", NilType},
   resolves |-> {i \in ResolveArgs : i.typ # "Unit"},
   invokes |-> {fn \in InvokeArgs : fn.id # "useBoth"},
   oracles |-> {<<TypeOrder>>}]   \* no loop of this universe meets two candidates

Next == NextOn(Core)

Spec == Init /\ [][Next]_vars

\* The universe of struct injection: structs with untagged, required and
\* optional fields, the pointer to a struct as a requested type, and a
\* function of two parameters for Invoke.
Inject ==
  [values |-> {BoundValue("Console", 1), BoundValue("Service", 1), BoundValue("Ints", 1)},
   factories |-> {f \in FactoryArgs : f.id = "newService"},
   types |-> {"Unit", PtrTo("Unit"), "Logger", "Job"},
   resolves |-> {[typ |-> "Plain", ptr |-> TRUE], [typ |-> "Job", ptr |-> TRUE],
                 [typ |-> "Outer", ptr |-> TRUE]},
   invokes |-> {fn \in InvokeArgs : fn.kind = "func"},
   oracles |-> {<<TypeOrder>>}]   \* no loop of this universe meets two candidates

NextInject == NextOn(Inject)

SpecInject == Init /\ [][NextInject]_vars

\* The universe of the fallback scan: two implementations of Logger are
\* bound, so the range loop over c.instances meets two candidates and the
\* order of the loop decides which one it returns.
Fallback ==
  [values |-> {BoundValue("Console", 1), BoundValue("File", 1)},
   factories |-> {f \in FactoryArgs : f.id = "newConsole"},
   types |-> {"Logger", "Console"},
   resolves |-> {[typ |-> "App", ptr |-> TRUE]},
   invokes |-> {fn \in InvokeArgs : fn.id = "useLogger"},
   oracles |-> {<<o>> : o \in Orders}]

NextFallback == NextOn(Fallback)

SpecFallback == Init /\ [][NextFallback]_vars

\* ------------------------------------------------------ concurrent callers
\* Goroutines that call Get(Console) at once on the root container, which
\* holds a shared factory for Console.  The container has no lock, so the
\* steps of get and make of different goroutines interleave between their
\* map accesses.
ConcType == "Console"

InitConc ==
  LET b == newBinding("", Fn("newConsole", "func", << >>, <<"Console">>, "Console"), <<TRUE>>).b
  IN /\ live = {0}
     /\ parent = [c \in Containers |-> NoParent]
     /\ instances = [c \in Containers |-> EmptyMap]
     /\ factories = [c \in Containers |->
                       IF c = 0 THEN Put(EmptyMap, slot(b.typ, ""), [b EXCEPT !.gen = 1]) ELSE EmptyMap]
     /\ calls = [c \in Containers |-> IF c = 0 THEN Put(EmptyMap, slot(b.typ, ""), 0) ELSE EmptyMap]
     /\ news = 0
     /\ lastBound = [c \in Containers |-> EmptyMap]
     /\ lastReg = [c \in Containers |->
                     IF c = 0 THEN Put(EmptyMap, <<b.typ, "">>,
                                       [what |-> "factory", val |-> NoValue, fid |-> "newConsole",
                                        shared |-> TRUE, gen |-> 1])
                     ELSE EmptyMap]
     /\ ret = Ret("NamedFactory", 0, "", b.typ, "newConsole", "ok", "", NoValue, << >>)
     /\ nops = 1
     /\ alive = TRUE
     /\ pc = [g \in Goroutines |-> "idle"]
     /\ tmp = [g \in Goroutines |-> NoValue]
     /\ writing = {}

Seq0 == <<live, parent, factories, news, lastBound, lastReg, ret, nops>>

\* the goroutine calls c.Get(ConcType)
GoGet(g) ==
  /\ alive /\ pc[g] = "idle"
  /\ pc' = [pc EXCEPT ![g] = "getValue"]
  /\ UNCHANGED <<Seq0, instances, calls, alive, tmp, writing>>

\* get: values, instanced := c.instances[t] ... return value
GetValue(g) ==
  /\ alive /\ pc[g] = "getValue"
  /\ IF Has(instances[0], ConcType, "") /\ IsValid(instances[0][slot(ConcType, "")])
       THEN /\ tmp' = [tmp EXCEPT ![g] = instances[0][slot(ConcType, "")]]
            /\ pc' = [pc EXCEPT ![g] = "done"]
     ELSE /\ pc' = [pc EXCEPT ![g] = "getBinding"]
          /\ UNCHANGED tmp
  /\ UNCHANGED <<Seq0, instances, calls, alive, writing>>

\* get: bindings, bound := c.factories[t] ... bind.make(c)
GetBinding(g) ==
  /\ alive /\ pc[g] = "getBinding"
  /\ Has(factories[0], ConcType, "")
  /\ pc' = [pc EXCEPT ![g] = "makeCheck"]
  /\ UNCHANGED <<Seq0, instances, calls, alive, tmp, writing>>

\* make: if values, exists := c.instances[b.typ] ... return v
MakeCheck(g) ==
  /\ alive /\ pc[g] = "makeCheck"
  /\ IF Has(instances[0], ConcType, "")
       THEN /\ tmp' = [tmp EXCEPT ![g] = instances[0][slot(ConcType, "")]]
            /\ pc' = [pc EXCEPT ![g] = "done"]
     ELSE /\ pc' = [pc EXCEPT ![g] = "invoke"]
          /\ UNCHANGED tmp
  /\ UNCHANGED <<Seq0, instances, calls, alive, writing>>

\* make: c.invoke(b.factory.Type(), b.factory)
InvokeFactory(g) ==
  /\ alive /\ pc[g] = "invoke"
  /\ LET b == factories[0][slot(ConcType, "")]
         n == calls[0][slot(ConcType, "")]
     IN /\ tmp' = [tmp EXCEPT ![g] = Call(b.factory, << >>, <<0, b.name, b.gen, n + 1>>)[1]]
        /\ calls' = [calls EXCEPT ![0] = Put(@, slot(ConcType, ""), n + 1)]
        /\ pc' = [pc EXCEPT ![g] = IF b.shared THEN "store" ELSE "done"]
  /\ UNCHANGED <<Seq0, instances, alive, writing>>

\* make: c.setInstance(b.name, b.typ, rv); the map assignment begins
StoreBegin(g) ==
  /\ alive /\ pc[g] = "store"
  /\ writing' = writing \cup {g}
  /\ pc' = [pc EXCEPT ![g] = "storing"]
  /\ UNCHANGED <<Seq0, instances, calls, alive, tmp>>

\* the map assignment is done
StoreEnd(g) ==
  /\ alive /\ pc[g] = "storing"
  /\ instances' = setInstance(0, "", ConcType, tmp[g], World(<< >>)).inst
  /\ writing' = writing \ {g}
  /\ pc' = [pc EXCEPT ![g] = "done"]
  /\ UNCHANGED <<Seq0, calls, alive, tmp>>

\* A map is read or written while another goroutine writes it: a data race.
\* The runtime may notice it and end the process ("fatal error: concurrent
\* map read and map write", "concurrent map writes"), or not notice, and
\* then the access goes on as the other actions say.
RaceFatal(g) ==
  /\ alive /\ pc[g] \in {"getValue", "makeCheck", "store"}
  /\ writing \ {g} # {}
  /\ alive' = FALSE
  /\ UNCHANGED <<Seq0, instances, calls, pc, tmp, writing>>

NextConc ==
  \E g \in Goroutines :
    \/ GoGet(g)
    \/ GetValue(g)
    \/ GetBinding(g)
    \/ MakeCheck(g)
    \/ InvokeFactory(g)
    \/ StoreBegin(g)
    \/ StoreEnd(g)
    \/ RaceFatal(g)

SpecConc == InitConc /\ [][NextConc]_vars

\* ------------------------------------------------------------------ claims
RECURSIVE Ancestors(_)
Ancestors(c) == IF parent[c] = NoParent THEN {} ELSE {parent[c]} \cup Ancestors(parent[c])

Chain(c) == {c} \cup Ancestors(c)

RetKey == <<ret.t, ret.name>>

IsGet == ret.op = "NamedGet" /\ ret.t # NilType

\* the value v is the product of a call of the factory fid registered in
\* container c under the name m
ProductOf(c, fid, m, v) == v.src = fid /\ v.id[1] = c /\ v.id[2] = m

\* C1: after Bind / NamedBind calls, NamedGet(name, T) (Get for the name "")
\* returns exactly the value bound last under (T, name): a later bind under
\* the same key replaces the earlier value, binds under other names of T do
\* not change it.
C1_GetReturnsLastBound ==
  (IsGet /\ RetKey \in DOMAIN lastBound[ret.c])
    => (ret.kind = "ok" /\ ret.val = lastBound[ret.c][RetKey].val)

\* a Get returned the second value bound under a key, while another value
\* stays bound under the other name of the type
C1_Witness ==
  /\ IsGet /\ ret.kind = "ok"
  /\ RetKey \in DOMAIN lastBound[ret.c]
  /\ lastBound[ret.c][RetKey].n = 2
  /\ ret.val = lastBound[ret.c][RetKey].val

\* a Get returned the value of its own name while a different value is bound
\* under the other name of the same type
C1_WitnessOtherName ==
  /\ IsGet /\ ret.kind = "ok"
  /\ \A n \in Names : <<ret.t, n>> \in DOMAIN lastBound[ret.c]
  /\ \E n \in Names : lastBound[ret.c][<<ret.t, n>>].val # ret.val
  /\ ret.val = lastBound[ret.c][RetKey].val

\* C2: registrations for one key (T, name) are last-write-wins across values
\* and factories: NamedGet(name, T) resolves through the latest registration
\* made for the key, a value or a factory, also when an earlier shared factory
\* of the key was resolved and cached.
C2_LastRegistrationWins ==
  (IsGet /\ RetKey \in DOMAIN lastReg[ret.c])
    => LET r == lastReg[ret.c][RetKey]
       IN IF r.what = "value" THEN ret.kind = "ok" /\ ret.val = r.val
          ELSE ret.kind = "ok" =>
                 (ProductOf(ret.c, r.fid, ret.name, ret.val) /\ ret.val.id[3] = r.gen)

\* C3: a shared factory is invoked exactly once, on the first successful Get
\* of its type, and every later Get returns that instance; a factory that is
\* not shared is invoked again by every Get.
C3_SharedFactoryOnce ==
  (IsGet /\ ret.kind = "ok" /\ RetKey \in DOMAIN lastReg[ret.c]
     /\ lastReg[ret.c][RetKey].what = "factory")
    => LET r == lastReg[ret.c][RetKey]
           n == calls[ret.c][RetKey]
       IN /\ ProductOf(ret.c, r.fid, ret.name, ret.val)
          /\ ret.val.id[3] = r.gen
          /\ ret.val.id[4] = n
          /\ r.shared => n = 1
          /\ ~r.shared => n >= 1

\* C4: when several goroutines make the first Get of a shared factory's type
\* at once, at most one invocation of the factory runs and all callers
\* observe the same value.
C4_ConstructOnce ==
  /\ calls[0][slot(ConcType, "")] <= 1
  /\ \A g, h \in Goroutines : (pc[g] = "done" /\ pc[h] = "done") => tmp[g] = tmp[h]

\* the factory argument that a call named by its id
FactoryArg(fid) == CHOOSE f \in FactoryArgs : f.id = fid

\* a factory argument that the validation of the specification refuses
InvalidFactory(f) ==
  \/ f.kind # "func"
  \/ Len(f.outs) \notin {1, 2}
  \/ Len(f.outs) = 2 /\ f.outs[2] # "error"
  \/ \E i \in 1 .. Len(f.ins) : f.ins[i] = f.outs[1]

\* C5: a factory registration that fails validation (no function, a wrong
\* number of results, a second result that is no error, a parameter of the
\* type it returns) leaves the values and the factories of the container as
\* they were.
C5_RefusedFactoryChangesNothing ==
  [][(nops' = nops + 1 /\ ret'.op = "NamedFactory" /\ InvalidFactory(FactoryArg(ret'.arg)))
       => (instances' = instances /\ factories' = factories)]_vars

\* a factory that takes what it returns was refused with the circular
\* reference error while an earlier factory holds its key
C5_Witness ==
  /\ ret.op = "NamedFactory" /\ ret.arg = "selfRef"
  /\ ret.kind = "err" /\ ret.err = errCircularReference
  /\ Has(factories[ret.c], "Service", ret.name)

\* C6: Factory / NamedFactory report every invalid argument as a returned
\* error and never panic.
C6_FactoryNeverPanics ==
  (ret.op = "NamedFactory" /\ InvalidFactory(FactoryArg(ret.arg)))
    => (ret.kind = "err" /\ ret.err \in {errNotFactory, errInvalidFactory, errCircularReference})

\* the value v is registered in container c for the type t under the name m:
\* it was bound there, or a factory registered there produced it
RegisteredUnder(c, t, m, v) ==
  \/ <<t, m>> \in DOMAIN lastBound[c] /\ lastBound[c][<<t, m>>].val = v
  \/ /\ <<t, m>> \in DOMAIN factories[c]
     /\ ProductOf(c, factories[c][<<t, m>>].factory.id, m, v)

\* NamedGet(n, T) never returns a value or a factory product registered for
\* T only under another name
NamesPartition ==
  (IsGet /\ ret.kind = "ok")
    => \A m \in Names \ {ret.name} :
         RegisteredUnder(ret.c, ret.t, m, ret.val)
           => RegisteredUnder(ret.c, ret.t, ret.name, ret.val)

\* Resolve was given a pointer to a struct whose field is tagged "primary" and
\* has type Console, in a container where Console is bound under "" only
PrimaryUnbound ==
  /\ ret.op = "Resolve" /\ ret.t = "App" /\ ret.arg = "ptr"
  /\ <<"Console", "">> \in DOMAIN lastBound[ret.c]
  /\ <<"Console", "primary">> \notin DOMAIN lastBound[ret.c]
  /\ <<"Console", "primary">> \notin DOMAIN factories[ret.c]

\* C7: naming is a strict partition: NamedGet(n, T) never returns a value or
\* a factory product registered for T only under another name; in particular
\* Resolve of a struct whose field is tagged "primary" and has type Console,
\* with Console bound only under the name "", fails with ErrValueNotFound and
\* leaves the field unset.
C7_NamesPartition ==
  /\ NamesPartition
  /\ PrimaryUnbound
       => /\ ret.kind = "err" /\ ret.err = ErrValueNotFound
          /\ ret.vals[1] = NoValue

\* C8: a child made by Fork sees the registrations of its parent: for a key
\* bound in the parent and not registered in the child, NamedGet on the child
\* returns what the parent holds.
C8_ParentVisible ==
  (/\ IsGet /\ parent[ret.c] # NoParent
   /\ RetKey \notin DOMAIN instances[ret.c]
   /\ RetKey \notin DOMAIN factories[ret.c]
   /\ RetKey \in DOMAIN lastBound[parent[ret.c]])
    => (ret.kind = "ok" /\ ret.val = lastBound[parent[ret.c]][RetKey].val)

\* what a Get returned comes from the registrations of its own container or
\* of an ancestor, or was built by the call
FromOwnChain ==
  (IsGet /\ ret.kind = "ok")
    => \/ ret.val.src = "new"
       \/ /\ ret.val.src = "bind"
          /\ \E a \in Chain(ret.c) : \E k \in DOMAIN lastBound[a] : lastBound[a][k].val = ret.val
       \/ /\ ret.val.src \notin {"new", "bind"}
          /\ ret.val.id[1] \in Chain(ret.c)

NoStrategy(c, name, t) ==
  /\ Kind(t) # "struct"
  /\ \A a \in Chain(c) :
       /\ <<t, name>> \notin DOMAIN instances[a]
       /\ <<t, name>> \notin DOMAIN factories[a]
       /\ \A rt \in Types \ {t} :
            AssignableTo(rt, t) => \A n \in Names : /\ <<rt, n>> \notin DOMAIN instances[a]
                                                    /\ <<rt, n>> \notin DOMAIN factories[a]

\* C10: when no strategy succeeds for (name, T), on a root container and on
\* a container made by Fork, Get / NamedGet ends and returns ErrValueNotFound;
\* it never recurses without end.
C10_NotFoundReturnsSentinel ==
  (ret.op = "NamedGet" /\ NoStrategy(ret.c, ret.name, ret.t))
    => (ret.kind = "err" /\ ret.err = ErrValueNotFound)

\* Resolve was given a pointer to a zero struct
ResolvedPtr == ret.op = "Resolve" /\ ret.arg = "ptr" /\ Kind(ret.t) = "struct"

\* C11: Resolve skips every field that carries no ioc tag: the field is not
\* looked up and stays as it was, and a struct without tagged fields makes
\* Resolve succeed whatever the container holds.
C11_UntaggedFieldsSkipped ==
  ResolvedPtr
    => /\ \A i \in 1 .. Len(Fields(ret.t)) :
            ~Fields(ret.t)[i].hasTag => ret.vals[i] = NoValue
       /\ (\A i \in 1 .. Len(Fields(ret.t)) : ~Fields(ret.t)[i].hasTag) => ret.kind = "ok"

\* the value bound under (t, name) in c is all the container chain of c
\* holds for the key, or the chain holds nothing that satisfies it
OnlyBound(c, name, t) ==
  /\ <<t, name>> \in DOMAIN lastBound[c]
  /\ <<t, name>> \notin DOMAIN factories[c]

Decided(c, t) ==
  \A i \in 1 .. Len(Fields(t)) :
    /\ Fields(t)[i].hasTag
    /\ \/ OnlyBound(c, parseTag(Fields(t)[i]).name, Fields(t)[i].typ)
       \/ NoStrategy(c, parseTag(Fields(t)[i]).name, Fields(t)[i].typ)

\* the first field that is required and has no satisfying binding; one past
\* the last field when there is none
FirstFailing(c, t) ==
  LET bad == {i \in 1 .. Len(Fields(t)) :
                /\ ~parseTag(Fields(t)[i]).omitempty
                /\ NoStrategy(c, parseTag(Fields(t)[i]).name, Fields(t)[i].typ)}
  IN IF bad = {} THEN Len(Fields(t)) + 1
     ELSE CHOOSE i \in bad : \A j \in bad : i <= j

\* C12: Resolve is fail-fast in the order of the fields: at the first
\* required field whose type has no satisfying binding in the container
\* chain it returns ErrValueNotFound, the fields before it keep what was
\* injected and no field from it on is modified; an optional field in the
\* same situation stays zero and Resolve goes on, and succeeds when no
\* required field fails.
C12_ResolveFailFast ==
  (ResolvedPtr /\ Decided(ret.c, ret.t))
    => LET i0 == FirstFailing(ret.c, ret.t)
           fs == Fields(ret.t)
       IN /\ IF i0 <= Len(fs) THEN ret.kind = "err" /\ ret.err = ErrValueNotFound
                              ELSE ret.kind = "ok"
          /\ \A i \in 1 .. Len(fs) :
               ret.vals[i] =
                 IF i < i0 /\ OnlyBound(ret.c, parseTag(fs[i]).name, fs[i].typ)
                   THEN lastBound[ret.c][<<fs[i].typ, parseTag(fs[i]).name>>].val
                 ELSE NoValue

\* the function that an Invoke named by its id
InvokeArg(fid) == CHOOSE fn \in InvokeArgs : fn.id = fid

\* Invoke was given a function whose parameters each have either a value
\* bound under "" and nothing else, or no satisfying binding in the chain
Invoked ==
  /\ ret.op = "Invoke"
  /\ InvokeArg(ret.arg).kind = "func"
  /\ \A i \in 1 .. Len(InvokeArg(ret.arg).ins) :
       \/ OnlyBound(ret.c, "", InvokeArg(ret.arg).ins[i])
       \/ NoStrategy(ret.c, "", InvokeArg(ret.arg).ins[i])

\* C13: Invoke resolves the parameters in their order with Get; when every
\* parameter resolves the function is called once with the resolved
\* arguments and its result list is returned as it is; when a parameter
\* does not resolve the function is not called and that failure is returned.
C13_InvokeAllOrNothing ==
  Invoked
    => LET f == InvokeArg(ret.arg)
           in == [i \in 1 .. Len(f.ins) |->
                    IF OnlyBound(ret.c, "", f.ins[i])
                      THEN lastBound[ret.c][<<f.ins[i], "">>].val ELSE NoValue]
       IN IF \A i \in 1 .. Len(f.ins) : OnlyBound(ret.c, "", f.ins[i])
            THEN ret.kind = "ok" /\ ret.vals = Call(f, in, <<ret.c, "", 0, nops>>)
          ELSE ret.kind = "err" /\ ret.err = ErrValueNotFound /\ ret.vals = << >>

\* rt is another type whose values satisfy a request for t
Satisfies(rt, t) == rt # t /\ AssignableTo(rt, t)

\* the fallback candidates of (name, t) in container c: the other types that
\* satisfy t and hold a value, or a factory, under the name
ValueCands(c, name, t) ==
  {rt \in Types : Satisfies(rt, t) /\ <<rt, name>> \in DOMAIN instances[c]}

FactoryCands(c, name, t) ==
  {rt \in Types : Satisfies(rt, t) /\ <<rt, name>> \in DOMAIN factories[c]}

\* v is the value of a fallback candidate of (name, t) in c, or the product
\* of one
FromCand(c, name, t, v) ==
  \/ \E rt \in ValueCands(c, name, t) : instances[c][<<rt, name>>] = v
  \/ \E rt \in FactoryCands(c, name, t) :
       ProductOf(c, factories[c][<<rt, name>>].factory.id, name, v)

\* the value bound under the key is returned and no factory is invoked
ValueFirst ==
  (ret'.t # NilType /\ <<ret'.t, ret'.name>> \in DOMAIN lastBound[ret'.c])
    => /\ ret'.kind = "ok"
       /\ ret'.val = lastBound[ret'.c][<<ret'.t, ret'.name>>].val
       /\ calls' = calls

\* without a value under the key, the factory of the key decides the call
FactorySecond ==
  (/\ ret'.t # NilType
   /\ <<ret'.t, ret'.name>> \notin DOMAIN instances[ret'.c]
   /\ <<ret'.t, ret'.name>> \in DOMAIN factories[ret'.c]
   /\ ret'.kind = "ok")
    => ProductOf(ret'.c, factories[ret'.c][<<ret'.t, ret'.name>>].factory.id, ret'.name, ret'.val)

\* without a value or a factory under the key, a fallback candidate is used
FallbackThird ==
  (/\ ret'.t # NilType
   /\ <<ret'.t, ret'.name>> \notin DOMAIN instances[ret'.c]
   /\ <<ret'.t, ret'.name>> \notin DOMAIN factories[ret'.c]
   /\ ValueCands(ret'.c, ret'.name, ret'.t) \cup FactoryCands(ret'.c, ret'.name, ret'.t) # {}
   /\ \A rt \in FactoryCands(ret'.c, ret'.name, ret'.t) :
        factories[ret'.c][<<rt, ret'.name>>].factory.ins = << >>)
    => /\ ret'.kind = "ok"
       /\ FromCand(ret'.c, ret'.name, ret'.t, ret'.val)

\* a struct is built only when nothing is registered for the request
ConstructLast ==
  (ret'.kind = "ok" /\ ret'.val.src = "new")
    => /\ \A a \in Chain(ret'.c) : /\ <<ret'.t, ret'.name>> \notin DOMAIN instances[a]
                                    /\ <<ret'.t, ret'.name>> \notin DOMAIN factories[a]
       /\ ValueCands(ret'.c, ret'.name, ret'.t) \cup FactoryCands(ret'.c, ret'.name, ret'.t) = {}

\* C14: the resolution order, stopping at the first success: a value bound
\* under (T, name) is returned before any factory is invoked; otherwise the
\* factory registered under (T, name) is used before any fallback candidate
\* of another type; fallback candidates are used before the parent, and a
\* struct is built only after all of these found nothing.
C14_ResolutionOrder ==
  [][(nops' = nops + 1 /\ ret'.op = "NamedGet")
       => (ValueFirst /\ FactorySecond /\ FallbackThird /\ ConstructLast)]_vars

\* what a Get without a value or a factory under its key returns from the
\* registrations is a candidate registered under the requested name
SameNameOnly ==
  (/\ ret'.t # NilType
   /\ <<ret'.t, ret'.name>> \notin DOMAIN instances[ret'.c]
   /\ <<ret'.t, ret'.name>> \notin DOMAIN factories[ret'.c]
   /\ ret'.kind = "ok" /\ ret'.val.src # "new")
    => FromCand(ret'.c, ret'.name, ret'.t, ret'.val)

\* C15: the fallback scan of NamedGet(name, T) is keyed on the requested
\* name for both kinds of candidate: a bound value or a factory of another
\* type that satisfies T is used only if it was registered under that name,
\* and is used whenever it was.
C15_FallbackKeyedOnName ==
  [][(nops' = nops + 1 /\ ret'.op = "NamedGet") => (SameNameOnly /\ FallbackThird)]_vars

\* C16: the fallback covers factories for an interface type: when T is an
\* interface with no value or factory under (T, name) and no bound value
\* that satisfies it, and a factory of a type that implements T is
\* registered, Get(T) invokes that factory and returns its product.
C16_InterfaceFallbackFactories ==
  [][(/\ nops' = nops + 1 /\ ret'.op = "NamedGet"
      /\ Kind(ret'.t) = "interface"
      /\ ValueCands(ret'.c, ret'.name, ret'.t) = {})
       => FallbackThird]_vars

\* C17: the fallback is deterministic: when several candidates of different
\* types satisfy T under the same name, Get(T) returns the one registered
\* first, so that one state of the container gives one answer, whatever the
\* order in which a range loop visits the map.
C17_FallbackDeterministic ==
  \A c \in live, name \in Names, t \in Types :
    \A o1 \in Oracles, o2 \in Oracles :
      LET g1 == get(c, name, t, World(o1), 0)
          g2 == get(c, name, t, World(o2), 0)
      IN g1.kind = g2.kind /\ g1.val = g2.val

\* C18: when the factory registered under (T, name) fails (it returns an
\* error, or a parameter of it cannot be resolved), NamedGet returns that
\* error, goes on to no fallback, parent or construction, and caches nothing
\* even when the factory is shared, so that the next NamedGet invokes the
\* factory again.
C18_FactoryErrorPropagates ==
  [][(/\ nops' = nops + 1 /\ ret'.op = "NamedGet" /\ ret'.t # NilType
      /\ <<ret'.t, ret'.name>> \notin DOMAIN instances[ret'.c]
      /\ <<ret'.t, ret'.name>> \in DOMAIN factories[ret'.c]
      /\ \E i \in 1 .. Len(factories[ret'.c][<<ret'.t, ret'.name>>].factory.ins) :
           NoStrategy(ret'.c, "", factories[ret'.c][<<ret'.t, ret'.name>>].factory.ins[i]))
       => /\ ret'.kind = "err" /\ ret'.err = ErrValueNotFound
          /\ ret'.val = NoValue
          /\ instances' = instances /\ calls' = calls]_vars

\* nothing is registered in the chain of c that a request for (name, t)
\* could use: no value and no factory of t or of a type that satisfies it
NothingRegistered(c, name, t) ==
  \A a \in Chain(c) :
    /\ <<t, name>> \notin DOMAIN instances[a]
    /\ <<t, name>> \notin DOMAIN factories[a]
    /\ \A rt \in Types \ {t} :
         AssignableTo(rt, t) => \A n \in Names : /\ <<rt, n>> \notin DOMAIN instances[a]
                                                 /\ <<rt, n>> \notin DOMAIN factories[a]

\* the struct type that t is, or points to; "" for every other type
StructOf(t) ==
  IF t \in StructTypes THEN t
  ELSE IF \E s \in StructTypes : t = PtrTo(s) THEN CHOOSE s \in StructTypes : t = PtrTo(s)
  ELSE ""

\* C19: implicit construction: when (name, T) cannot be resolved from values
\* or factories and T is a struct type or a pointer to a struct type, Get
\* builds a new instance, injects its fields and returns it, and fails only
\* when a required field cannot be injected; for every other kind of T it
\* returns ErrValueNotFound.
C19_ImplicitConstruction ==
  [][(/\ nops' = nops + 1 /\ ret'.op = "NamedGet" /\ ret'.t # NilType
      /\ NothingRegistered(ret'.c, ret'.name, ret'.t))
       => IF StructOf(ret'.t) # ""
            THEN \/ ret'.kind = "ok" /\ ret'.val.src = "new"
                 \/ /\ ret'.kind = "err"
                    /\ FirstFailing(ret'.c, StructOf(ret'.t)) <= Len(Fields(StructOf(ret'.t)))
          ELSE ret'.kind = "err" /\ ret'.err = ErrValueNotFound]_vars

\* C20: type soundness of the resolution: a value that Get(T) or
\* NamedGet(name, T) returns without error, on every path, has a type that is
\* T or is assignable to T, so that the field assignment of Resolve and the
\* call of Invoke or make that consume it never fail on a type mismatch.
C20_TypeSoundness ==
  /\ (IsGet /\ ret.kind = "ok") => AssignableTo(ret.val.typ, ret.t)
  /\ ret.op \in {"NamedGet", "Resolve", "Invoke"} => ret.kind # "panic"

====
